---------------------------- MODULE Spec2Model ----------------------------
(***************************************************************************)
(* Hybrid two-stage nearest-neighbour recommender of aisingapore/Novella.  *)
(*                                                                         *)
(*   src/qrecsys.py          Recommender.recommend, Recommender._find_nearest *)
(*   src/recsys_pipeline.py  the earlier copy of the same class            *)
(*                                                                         *)
(* Item indices are 0 .. NumItems-1.  A row of an embedding matrix is a    *)
(* vector of integer coordinates (the matrices enumerated here have rows   *)
(* of one coordinate); a matrix is a function from item index to row; a    *)
(* 2-D query array is a sequence of rows.  Python lists and 1-D arrays are *)
(* sequences.                                                              *)
(***************************************************************************)
EXTENDS Integers, Sequences, FiniteSets

(***************************************************************************)
(* Bounds of the model.                                                    *)
(***************************************************************************)
NumItems == 3
MaxCoord == 2
MaxBatch == 2
MaxK == 2
MaxMult == 2
MaxRec == 2
NumCalls == 2

Calls == 1 .. NumCalls
Items == 0 .. (NumItems - 1)
Coords == 0 .. MaxCoord
Rows == {<<v>> : v \in Coords}
Matrices == [Items -> Rows]
Queries == {<<0>>, <<MaxCoord>>}
Batches ==
    {<<r>> : r \in Rows} \cup UNION {[1 .. b -> Queries] : b \in 2 .. MaxBatch}

VARIABLES
    embeds_use,        \* self.embeds_use: the semantic matrix
    embeds_mf,         \* self.embeds_mf: the collaborative matrix
    interacted_items,  \* self.interacted_items: set of item indices
    items,             \* self.items: catalogue, item index -> title
    argsort_ties,      \* the order np.argsort leaves equal keys in
    module,            \* the file the Recommender class was imported from
    fn_x, fn_y, fn_K,  \* arguments of a direct _find_nearest call
    fn_pc, fn_ret,     \* its position and its return value
    pc,                \* per recommend call: its position
    args,              \* per call: query vector and keyword arguments
    item_ids,          \* per call: local item_ids
    mf_items,          \* per call: local mf_items of the last iteration
    rec,               \* per call: local rec of the last iteration
    recs,              \* per call: local recs
    seed_i,            \* per call: position of the for loop in item_ids
    result,            \* per call: the returned list
    error              \* per call: the exception raised, if any

fn_vars == <<fn_x, fn_y, fn_K, fn_pc, fn_ret>>
call_vars == <<pc, args, item_ids, mf_items, rec, recs, seed_i, result, error>>
env_vars == <<embeds_use, embeds_mf, interacted_items, items, argsort_ties, module>>
vars == <<env_vars, fn_vars, call_vars>>

artifacts == <<embeds_use, embeds_mf, interacted_items, items>>

(***************************************************************************)
(* Python and numpy primitives.                                            *)
(***************************************************************************)
Min(a, b) == IF a <= b THEN a ELSE b
Max(a, b) == IF a >= b THEN a ELSE b

\* s[:k] of a Python sequence: a negative k counts from the end.
PySlice(s, k) ==
    IF k >= 0 THEN SubSeq(s, 1, Min(k, Len(s)))
    ELSE SubSeq(s, 1, Max(0, Len(s) + k))

\* a[::-1]: the elements along the first axis in reverse.
Reversed(s) == [i \in 1 .. Len(s) |-> s[Len(s) + 1 - i]]

Range(s) == {s[i] : i \in 1 .. Len(s)}

NoDup(s) == \A i, j \in 1 .. Len(s) : i # j => s[i] # s[j]

Permutations(S) ==
    {p \in [1 .. Cardinality(S) -> S] : \A e \in S : \E i \in DOMAIN p : p[i] = e}

RECURSIVE SumSq(_, _, _)
SumSq(a, b, d) ==
    IF d = 0 THEN 0
    ELSE (a[d] - b[d]) * (a[d] - b[d]) + SumSq(a, b, d - 1)

\* The squared Euclidean distance of two rows.  euclidean_distances returns
\* its square root, which orders the rows the same way.
SqDist(a, b) == SumSq(a, b, Len(a))

\* sklearn's euclidean_distances(x, y): one row of distances per query row.
euclidean_distances(x, y) ==
    [q \in 1 .. Len(x) |-> [i \in Items |-> SqDist(x[q], y[i])]]

\* Position of item i in the tie order.
TieRank(ties, i) == CHOOSE p \in 1 .. Len(ties) : ties[p] = i

\* np.argsort of one row d of distances: ascending by distance.  The default
\* kind is quicksort, which is not stable: equal keys come out in an order
\* the build decides (ties), the same on every call.
ArgsortRow(d, ties) ==
    LET Precedes(j, i) ==
            \/ d[j] < d[i]
            \/ d[j] = d[i] /\ TieRank(ties, j) < TieRank(ties, i)
        Pos(i) == 1 + Cardinality({j \in Items : Precedes(j, i)})
    IN  [p \in 1 .. NumItems |-> CHOOSE i \in Items : Pos(i) = p]

\* np.argsort(dists) sorts along the last axis: each row on its own.
argsort(dists, ties) == [q \in 1 .. Len(dists) |-> ArgsortRow(dists[q], ties)]

\* _find_nearest with the reversal applied along the sorted axis: the rows
\* farthest first.
FindNearestFarthestFirst(x, y, K, ties) ==
    LET sorted_items == argsort(euclidean_distances(x, y), ties)
    IN  PySlice(Reversed(sorted_items[1]), K)

\* _find_nearest reading K positions whatever the number of rows.
FindNearestUnclamped(x, y, K, ties) ==
    LET sorted_items == Reversed(argsort(euclidean_distances(x, y), ties))
    IN  [p \in 1 .. K |-> sorted_items[1][Min(p, NumItems)]]

\* Recommender._find_nearest(x, y, K): argsort sorts each row of dists in
\* ascending order, [::-1] reverses the order of the rows (not the order
\* within a row), [0] takes the first row and [:K] its first K entries.
_find_nearest(x, y, K, ties) ==
    LET dists == euclidean_distances(x, y)
        sorted_items == Reversed(argsort(dists, ties))
    IN  PySlice(sorted_items[1], K)

\* np.setdiff1d(ar1, ar2) without assume_unique: the difference sorted by
\* value.
setdiff1dSorted(ar1, ar2) ==
    LET S == Range(ar1) \ Range(ar2)
    IN  [p \in 1 .. Cardinality(S) |->
            CHOOSE e \in S : Cardinality({f \in S : f < e}) = p - 1]

\* np.setdiff1d(ar1, ar2, assume_unique=True): the elements of ar1 that are
\* not in ar2, in the order of ar1.
setdiff1d(ar1, ar2) ==
    LET keep(e) == e \notin Range(ar2)
    IN  SelectSeq(ar1, keep)

\* [item_id for item_id in item_ids if item_id in self.interacted_items]
InteractedOnly(ids, interacted) ==
    LET keep(e) == e \in interacted
    IN  SelectSeq(ids, keep)

\* [self.items.loc[idx].item() for idx in recs]
Titles(catalogue, idxs) == [i \in 1 .. Len(idxs) |-> catalogue[idxs[i]]]

\* Recommender.recommend of qrecsys.py run from start to end on its own.
RECURSIVE ExpandAll(_, _, _, _, _, _)
ExpandAll(seeds, i, acc, a, mf, ties) ==
    IF i > Len(seeds) THEN acc
    ELSE LET fetched == _find_nearest(<<mf[seeds[i]]>>, mf,
                            a.K_mf * a.mf_buffer_multiplier, ties)
             new == PySlice(setdiff1d(fetched, acc), a.K_mf)
         IN  ExpandAll(seeds, i + 1, acc \o new, a, mf, ties)

RecommendAlone(a, use, mf, interacted, catalogue, ties) ==
    LET nearest == _find_nearest(<<a.query>>, use,
                       a.K_use * a.use_buffer_multiplier, ties)
        seeds == PySlice(InteractedOnly(nearest, interacted), a.K_use)
        all == ExpandAll(seeds, 1, <<>>, a, mf, ties)
    IN  Titles(catalogue, PySlice(all, a.n_to_recommend))

NoArgs ==
    [query |-> <<0>>, K_use |-> 1, K_mf |-> 1,
     n_to_recommend |-> 1, use_buffer_multiplier |-> 1,
     mf_buffer_multiplier |-> 1]

NoCalls ==
    /\ pc = [c \in Calls |-> "idle"]
    /\ args = [c \in Calls |-> NoArgs]
    /\ item_ids = [c \in Calls |-> <<>>]
    /\ mf_items = [c \in Calls |-> <<>>]
    /\ rec = [c \in Calls |-> <<>>]
    /\ recs = [c \in Calls |-> <<>>]
    /\ seed_i = [c \in Calls |-> 0]
    /\ result = [c \in Calls |-> <<>>]
    /\ error = [c \in Calls |-> "none"]

NoFind ==
    /\ fn_x = <<<<0>>>>
    /\ fn_y = [i \in Items |-> <<0>>]
    /\ fn_K = 0
    /\ fn_pc = "idle"
    /\ fn_ret = <<>>

(***************************************************************************)
(* A direct call of _find_nearest on arbitrary arguments.                  *)
(***************************************************************************)
InitFind ==
    /\ embeds_use = [i \in Items |-> <<0>>]
    /\ embeds_mf = [i \in Items |-> <<0>>]
    /\ interacted_items = {}
    /\ items = [i \in Items |-> i]
    /\ argsort_ties \in Permutations(Items)
    /\ module = "qrecsys"
    /\ NoCalls
    /\ fn_x \in Batches
    /\ fn_y \in Matrices
    /\ fn_K \in 1 .. (NumItems + 1)
    /\ fn_pc = "call"
    /\ fn_ret = <<>>

FindNearestCall ==
    /\ fn_pc = "call"
    /\ fn_ret' = _find_nearest(fn_x, fn_y, fn_K, argsort_ties)
    /\ fn_pc' = "returned"
    /\ UNCHANGED <<env_vars, call_vars, fn_x, fn_y, fn_K>>

NextFind == FindNearestCall

SpecFind == InitFind /\ [][NextFind]_vars


(***************************************************************************)
(* Recommender.recommend, one action per numbered step of the method.      *)
(***************************************************************************)
\* qrecsys.py: encode the query and fetch its K_use * use_buffer_multiplier
\* nearest rows of the semantic matrix.
NearestUse(c) ==
    /\ pc[c] = "start"
    /\ module = "qrecsys"
    /\ LET encoded_query == <<args[c].query>>
       IN  item_ids' = [item_ids EXCEPT ![c] =
               _find_nearest(encoded_query, embeds_use,
                             args[c].K_use * args[c].use_buffer_multiplier,
                             argsort_ties)]
    /\ pc' = [pc EXCEPT ![c] = "filter"]
    /\ UNCHANGED <<env_vars, fn_vars, args, mf_items, rec, recs, seed_i,
                   result, error>>

\* recsys_pipeline.py: _find_nearest is declared without self, so the bound
\* call self._find_nearest(encoded_query, self.embeds_use, K=...) passes
\* self.embeds_use as K too and Python raises TypeError.
NearestUsePipeline(c) ==
    /\ pc[c] = "start"
    /\ module = "recsys_pipeline"
    /\ pc' = [pc EXCEPT ![c] = "raised"]
    /\ error' = [error EXCEPT ![c] = "TypeError"]
    /\ UNCHANGED <<env_vars, fn_vars, args, item_ids, mf_items, rec, recs,
                   seed_i, result>>

\* The filter step, were it to consume the interaction set it reads.
FilterInteractedDiscarding(c) ==
    /\ pc[c] = "filter"
    /\ item_ids' = [item_ids EXCEPT ![c] =
           InteractedOnly(item_ids[c], interacted_items)]
    /\ interacted_items' = interacted_items \ Range(item_ids[c])
    /\ pc' = [pc EXCEPT ![c] = "top"]
    /\ UNCHANGED <<embeds_use, embeds_mf, items, argsort_ties, module,
                   fn_vars, args, mf_items, rec, recs, seed_i, result, error>>

\* Step 2: keep the neighbours that have been interacted with.
FilterInteracted(c) ==
    /\ pc[c] = "filter"
    /\ item_ids' = [item_ids EXCEPT ![c] =
           InteractedOnly(item_ids[c], interacted_items)]
    /\ pc' = [pc EXCEPT ![c] = "top"]
    /\ UNCHANGED <<env_vars, fn_vars, args, mf_items, rec, recs, seed_i,
                   result, error>>

\* Step 3: the first K_use of them are the seeds; recs starts empty.
TopKUse(c) ==
    /\ pc[c] = "top"
    /\ item_ids' = [item_ids EXCEPT ![c] = PySlice(item_ids[c], args[c].K_use)]
    /\ recs' = [recs EXCEPT ![c] = <<>>]
    /\ seed_i' = [seed_i EXCEPT ![c] = 1]
    /\ pc' = [pc EXCEPT ![c] = "loop"]
    /\ UNCHANGED <<env_vars, fn_vars, args, mf_items, rec, result, error>>

\* The loop body without the [:K_mf] slice.
ExpandSeedUnsliced(c) ==
    /\ pc[c] = "loop"
    /\ seed_i[c] <= Len(item_ids[c])
    /\ LET item_id == item_ids[c][seed_i[c]]
           fetched == _find_nearest(<<embeds_mf[item_id]>>, embeds_mf,
                          args[c].K_mf * args[c].mf_buffer_multiplier,
                          argsort_ties)
           new == setdiff1d(fetched, recs[c])
       IN  /\ mf_items' = [mf_items EXCEPT ![c] = fetched]
           /\ rec' = [rec EXCEPT ![c] = new]
           /\ recs' = [recs EXCEPT ![c] = recs[c] \o new]
    /\ seed_i' = [seed_i EXCEPT ![c] = seed_i[c] + 1]
    /\ UNCHANGED <<env_vars, fn_vars, pc, args, item_ids, result, error>>

\* Step 4: one iteration of the for loop over the seeds.
ExpandSeed(c) ==
    /\ pc[c] = "loop"
    /\ seed_i[c] <= Len(item_ids[c])
    /\ LET item_id == item_ids[c][seed_i[c]]
           fetched == _find_nearest(<<embeds_mf[item_id]>>, embeds_mf,
                          args[c].K_mf * args[c].mf_buffer_multiplier,
                          argsort_ties)
           new == PySlice(setdiff1d(fetched, recs[c]), args[c].K_mf)
       IN  /\ mf_items' = [mf_items EXCEPT ![c] = fetched]
           /\ rec' = [rec EXCEPT ![c] = new]
           /\ recs' = [recs EXCEPT ![c] = recs[c] \o new]
    /\ seed_i' = [seed_i EXCEPT ![c] = seed_i[c] + 1]
    /\ UNCHANGED <<env_vars, fn_vars, pc, args, item_ids, result, error>>

\* Step 5: the loop is over; truncate to n_to_recommend.
Truncate(c) ==
    /\ pc[c] = "loop"
    /\ seed_i[c] > Len(item_ids[c])
    /\ recs' = [recs EXCEPT ![c] = PySlice(recs[c], args[c].n_to_recommend)]
    /\ pc' = [pc EXCEPT ![c] = "titles"]
    /\ UNCHANGED <<env_vars, fn_vars, args, item_ids, mf_items, rec, seed_i,
                   result, error>>

\* Step 6: map the indices to titles and return them.
GetTitles(c) ==
    /\ pc[c] = "titles"
    /\ result' = [result EXCEPT ![c] = Titles(items, recs[c])]
    /\ pc' = [pc EXCEPT ![c] = "done"]
    /\ UNCHANGED <<env_vars, fn_vars, args, item_ids, mf_items, rec, recs,
                   seed_i, error>>

Next ==
    \E c \in Calls :
        \/ NearestUse(c)
        \/ FilterInteracted(c)
        \/ TopKUse(c)
        \/ ExpandSeed(c)
        \/ Truncate(c)
        \/ GetTitles(c)

NextPipeline == \E c \in Calls : NearestUsePipeline(c)

(***************************************************************************)
(* Initial states.                                                         *)
(***************************************************************************)
PositiveArgs ==
    [query : Queries, K_use : 1 .. MaxK, K_mf : 1 .. MaxK,
     n_to_recommend : 1 .. MaxRec,
     use_buffer_multiplier : 1 .. MaxMult,
     mf_buffer_multiplier : 1 .. MaxMult]

AnyArgs ==
    [query : Queries, K_use : -1 .. MaxK, K_mf : -1 .. MaxK,
     n_to_recommend : -1 .. MaxRec,
     use_buffer_multiplier : -1 .. MaxMult,
     mf_buffer_multiplier : -1 .. MaxMult]

ConcurrentArgs ==
    [query : {<<0>>}, K_use : 1 .. MaxK, K_mf : 1 .. MaxK,
     n_to_recommend : {MaxRec},
     use_buffer_multiplier : {MaxMult},
     mf_buffer_multiplier : {1}]
Catalogues == {[i \in Items |-> i], [i \in Items |-> i \div 2]}
DistinctRows == [i \in Items |-> <<i % (MaxCoord + 1)>>]

OneCall(A) ==
    /\ pc = [c \in Calls |-> IF c = 1 THEN "start" ELSE "idle"]
    /\ \E a \in A : args = [c \in Calls |-> IF c = 1 THEN a ELSE NoArgs]
    /\ item_ids = [c \in Calls |-> <<>>]
    /\ mf_items = [c \in Calls |-> <<>>]
    /\ rec = [c \in Calls |-> <<>>]
    /\ recs = [c \in Calls |-> <<>>]
    /\ seed_i = [c \in Calls |-> 0]
    /\ result = [c \in Calls |-> <<>>]
    /\ error = [c \in Calls |-> "none"]

\* One recommend call of qrecsys.Recommender with positive arguments.
Init ==
    /\ embeds_use = DistinctRows
    /\ embeds_mf \in Matrices
    /\ interacted_items \in SUBSET Items
    /\ items \in Catalogues
    /\ argsort_ties \in Permutations(Items)
    /\ module = "qrecsys"
    /\ NoFind
    /\ OneCall(PositiveArgs)

Spec == Init /\ [][Next]_vars

\* One recommend call of recsys_pipeline.Recommender.
InitPipeline ==
    /\ embeds_use = DistinctRows
    /\ embeds_mf = DistinctRows
    /\ interacted_items \in SUBSET Items
    /\ items = [i \in Items |-> i]
    /\ argsort_ties = [p \in 1 .. NumItems |-> p - 1]
    /\ module = "recsys_pipeline"
    /\ NoFind
    /\ OneCall(PositiveArgs)

SpecPipeline == InitPipeline /\ [][NextPipeline]_vars

\* One recommend call of qrecsys.Recommender; any argument may be zero or
\* negative.
InitAnyArgs ==
    /\ embeds_use = DistinctRows
    /\ embeds_mf = DistinctRows
    /\ interacted_items \in SUBSET Items
    /\ items = [i \in Items |-> i]
    /\ argsort_ties \in Permutations(Items)
    /\ module = "qrecsys"
    /\ NoFind
    /\ OneCall(AnyArgs)

SpecAnyArgs == InitAnyArgs /\ [][Next]_vars

\* NumCalls recommend calls of qrecsys.Recommender on the same object, their
\* steps interleaved in every order.
InitConcurrent ==
    /\ embeds_use = DistinctRows
    /\ embeds_mf \in Matrices
    /\ interacted_items \in {Items, Items \ {0}}
    /\ items = [i \in Items |-> i \div 2]
    /\ argsort_ties \in Permutations(Items)
    /\ module = "qrecsys"
    /\ NoFind
    /\ pc = [c \in Calls |-> "start"]
    /\ args \in [Calls -> ConcurrentArgs]
    /\ item_ids = [c \in Calls |-> <<>>]
    /\ mf_items = [c \in Calls |-> <<>>]
    /\ rec = [c \in Calls |-> <<>>]
    /\ recs = [c \in Calls |-> <<>>]
    /\ seed_i = [c \in Calls |-> 0]
    /\ result = [c \in Calls |-> <<>>]
    /\ error = [c \in Calls |-> "none"]

SpecConcurrent == InitConcurrent /\ [][Next]_vars


(***************************************************************************)
(* Properties.                                                             *)
(***************************************************************************)
FnDist(i) == SqDist(fn_x[1], fn_y[i])

\* C1: with a single query row, _find_nearest returns indices nearest first:
\* an earlier position is never farther from the query than a later one, and
\* the first index is a row of minimum distance.
NearestFirst ==
    (fn_pc = "returned" /\ Len(fn_x) = 1) =>
        /\ \A p1, p2 \in 1 .. Len(fn_ret) :
               p1 < p2 => FnDist(fn_ret[p1]) <= FnDist(fn_ret[p2])
        /\ Len(fn_ret) >= 1 =>
               \A i \in Items : FnDist(fn_ret[1]) <= FnDist(i)

NearestFirstWitness ==
    /\ fn_pc = "returned"
    /\ Len(fn_x) = 1
    /\ Len(fn_ret) >= 2
    /\ FnDist(fn_ret[1]) < FnDist(fn_ret[2])
    /\ fn_ret[1] > fn_ret[2]

\* C2: for any positive K, _find_nearest returns exactly min(K, N) indices,
\* all in [0, N), none repeated; K > N is clamped to N without an error.
ExactlyMinKN ==
    fn_pc = "returned" =>
        /\ Len(fn_ret) = Min(fn_K, NumItems)
        /\ Range(fn_ret) \subseteq Items
        /\ NoDup(fn_ret)

ExactlyMinKNWitness ==
    /\ fn_pc = "returned"
    /\ fn_K > NumItems
    /\ Len(fn_ret) = NumItems

\* C7: two rows at exactly the same distance from the query are returned in
\* row-index order, the lower index first.
TiesInIndexOrder ==
    (fn_pc = "returned" /\ Len(fn_x) = 1) =>
        \A p1, p2 \in 1 .. Len(fn_ret) :
            (p1 < p2 /\ FnDist(fn_ret[p1]) = FnDist(fn_ret[p2]))
                => fn_ret[p1] < fn_ret[p2]

AllPositive(a) ==
    /\ a.K_use > 0
    /\ a.K_mf > 0
    /\ a.n_to_recommend > 0
    /\ a.use_buffer_multiplier > 0
    /\ a.mf_buffer_multiplier > 0

InLoop(c) == pc[c] = "loop"

\* The accumulated list as it was before the last iteration appended rec.
Before(c) == SubSeq(recs[c], 1, Len(recs[c]) - Len(rec[c]))

\* C3: the accumulated list never holds an item index twice, and the list
\* returned has at most n_to_recommend entries and no duplicate.
NoDuplicateRecommendation ==
    \A c \in Calls :
        /\ pc[c] \in {"loop", "titles"} => NoDup(recs[c])
        /\ pc[c] = "done" =>
               /\ Len(result[c]) <= args[c].n_to_recommend
               /\ NoDup(result[c])

\* The part of C3 that is about item indices.
NoDuplicateIndex ==
    \A c \in Calls :
        /\ pc[c] \in {"loop", "titles", "done"} => NoDup(recs[c])
        /\ pc[c] = "done" =>
               /\ Len(result[c]) = Len(recs[c])
               /\ Len(result[c]) <= args[c].n_to_recommend

\* C4: every seed is in InteractedItemSet and there are at most K_use seeds;
\* with an empty InteractedItemSet the call raises nothing and returns the
\* empty list.
SeedsAreInteracted ==
    \A c \in Calls :
        /\ pc[c] \in {"loop", "titles", "done"} =>
               /\ Range(item_ids[c]) \subseteq interacted_items
               /\ Len(item_ids[c]) <= args[c].K_use
        /\ (interacted_items = {} /\ pc[c] \notin {"idle", "start"}) =>
               /\ error[c] = "none"
               /\ pc[c] # "raised"
               /\ pc[c] \in {"loop", "titles", "done"} => item_ids[c] = <<>>
               /\ pc[c] = "done" => result[c] = <<>>

\* C5: recommend writes none of the shared artifacts, and under every
\* interleaving each call returns the list it returns when run alone, so
\* calls with identical inputs return identical lists.
CallsAreIndependent ==
    /\ [][artifacts' = artifacts]_vars
    /\ [](\A c \in Calls :
            pc[c] = "done" =>
                result[c] = RecommendAlone(args[c], embeds_use, embeds_mf,
                                interacted_items, items, argsort_ties))
    /\ [](\A c, d \in Calls :
            (pc[c] = "done" /\ pc[d] = "done" /\ args[c] = args[d])
                => result[c] = result[d])

CallsAreIndependentWitness ==
    /\ \A c \in Calls : InLoop(c) /\ seed_i[c] = 2 /\ Len(item_ids[c]) = 2
    /\ \A c, d \in Calls : args[c] = args[d]
    /\ \A c \in Calls : Len(recs[c]) >= 1

\* C6: a call with a zero or negative argument raises InvalidConfiguration and
\* returns no list.
NonPositiveIsRejected ==
    \A c \in Calls :
        (pc[c] # "idle" /\ ~AllPositive(args[c])) =>
            /\ pc[c] # "done"
            /\ pc[c] = "raised" => error[c] = "InvalidConfiguration"

\* Positions of fetched whose entry is not in acc.
Survivors(fetched, acc) ==
    {p \in 1 .. Len(fetched) : fetched[p] \notin Range(acc)}

StableTies == argsort_ties = [p \in 1 .. NumItems |-> p - 1]

\* C9 as stated: when K_mf * mf_buffer_multiplier <= N every seed appends
\* exactly K_mf indices, so the accumulated list has seeds * K_mf entries.
\* Stated for a stable argsort, so that a violation owes nothing to the
\* order of ties.
EverySeedAppendsKmf ==
    \A c \in Calls :
        (StableTies /\ InLoop(c) /\ args[c].K_mf * args[c].mf_buffer_multiplier <= NumItems)
            => Len(recs[c]) = (seed_i[c] - 1) * args[c].K_mf

\* C9 amended: a seed appends at most K_mf indices and at least
\* min(K_mf, fetched - already accumulated), so the accumulated list has at
\* most seeds * K_mf entries, and exactly K_mf are appended whenever
\* K_mf * (mf_buffer_multiplier - 1) is at least the accumulated length.
SeedAppendsUpToKmf ==
    \A c \in Calls :
        (InLoop(c) /\ args[c].K_mf * args[c].mf_buffer_multiplier <= NumItems)
            => /\ Len(recs[c]) <= (seed_i[c] - 1) * args[c].K_mf
               /\ seed_i[c] >= 2 =>
                      LET fetch == args[c].K_mf * args[c].mf_buffer_multiplier
                          had == Len(Before(c))
                      IN  /\ Len(rec[c]) <= args[c].K_mf
                          /\ Len(rec[c]) >= Min(args[c].K_mf, fetch - had)
                          /\ fetch - had >= args[c].K_mf
                                 => Len(rec[c]) = args[c].K_mf

SeedAppendsUpToKmfWitness ==
    \E c \in Calls :
        /\ InLoop(c)
        /\ seed_i[c] = 3
        /\ args[c].K_mf * args[c].mf_buffer_multiplier <= NumItems
        /\ Len(rec[c]) < args[c].K_mf

UniqueRow(i) == \A j \in Items : j # i => embeds_mf[j] # embeds_mf[i]

\* C10 as stated: for every collaborative matrix each seed is accumulated
\* once its expansion has run, and the returned list starts with the first
\* seed.  Stated for a stable argsort, so that a violation owes nothing to
\* the order of ties.
SeedIsAccumulated ==
    StableTies => \A c \in Calls :
        /\ InLoop(c) =>
               \A j \in 1 .. (seed_i[c] - 1) : item_ids[c][j] \in Range(recs[c])
        /\ (pc[c] \in {"titles", "done"} /\ Len(item_ids[c]) >= 1) =>
               /\ Len(recs[c]) >= 1
               /\ recs[c][1] = item_ids[c][1]
               /\ pc[c] = "done" => result[c][1] = items[item_ids[c][1]]

\* C10 amended: the same for every seed whose collaborative row is equal to
\* no other row of the matrix.
UniqueSeedIsAccumulated ==
    \A c \in Calls :
        /\ InLoop(c) =>
               \A j \in 1 .. (seed_i[c] - 1) :
                   UniqueRow(item_ids[c][j]) => item_ids[c][j] \in Range(recs[c])
        /\ (pc[c] \in {"titles", "done"} /\ Len(item_ids[c]) >= 1
                /\ UniqueRow(item_ids[c][1])) =>
               /\ Len(recs[c]) >= 1
               /\ recs[c][1] = item_ids[c][1]
               /\ pc[c] = "done" => result[c][1] = items[item_ids[c][1]]

UniqueSeedIsAccumulatedWitness ==
    \E c \in Calls :
        /\ InLoop(c)
        /\ seed_i[c] = 3
        /\ UniqueRow(item_ids[c][1])
        /\ ~UniqueRow(item_ids[c][2])
        /\ recs[c][1] = item_ids[c][1]
        /\ item_ids[c][2] \notin Range(recs[c])

=============================================================================
